---- MODULE Spec2Model ----
(***************************************************************************)
(* geoquizz: the map data model (MapModel.js): country registry, adjacency *)
(* graph, region index and name resolution, built by loadMapData and then  *)
(* queried by the game modes; and the game controller (GameController.js)  *)
(* with the state of the menu view, of the canvas view and of the place    *)
(* finder (PlaceFinderModel.js) it drives.                                 *)
(*                                                                         *)
(* JavaScript strings on which the code computes (trim, toLowerCase,       *)
(* includes) are sequences of one-character strings, so that those         *)
(* conversions are computed and not assumed.  Region names, on which the   *)
(* code only tests equality, are TLA+ strings.                             *)
(***************************************************************************)
EXTENDS Integers, Sequences, FiniteSets, TLC

VARIABLES
    countries,        \* Map name -> country data, as its entries in insertion order
    adjacencyMap,     \* Map name -> Set of names
    continentMap,     \* Map name -> continent
    countriesList,    \* Array of the unique country names
    validPairs,       \* Array of {start, end}
    svgLoaded,
    regionCountries,  \* Map region -> Array of names, as its entries in insertion order
    namedCountries,   \* Set of names
    currentRegion,    \* region name, or NoRegion for null
    pc,               \* the await loadMapData is suspended at, or "done"
    loadResult,       \* what loadMapData returned: "pending", "true" or "false"
    svgFetch,         \* what the fetch of the SVG file produced
    adjacencyFetch,   \* what the fetch of data/country_adjacency.json produced
    pairsFetch,       \* what the fetch of data/country_pairs.json produced
    regionFetch,      \* what the fetch of data/countries_by_region.json produced
    ret,              \* the last call of a MapModel method: its name, arguments and result
    \* GameController
    initPc,           \* init(): "awaiting" loadMapData, then "ready" or "failed"
    isGameActive,
    currentGameMode,  \* "countryPath", "nameThemAll" or "findPlace"
    startCountry,     \* name, or EmptyString for null
    endCountry,
    currentPath,      \* Array of names
    gameStats,        \* moves and errors (the two time stamps are left out)
    selectedRegion,   \* region name, or NoRegion for null
    controllerNamedCountries,  \* the controller's own namedCountries Set
    placesLoading,    \* the calls of startFindPlaceGame suspended at loadPlacesData
    lastEvent,        \* the last handler of the controller that ran, with what it did
    renderedAt,       \* the values loadResult had at the calls of renderMap
    \* MenuView
    isMenuVisible,
    isGameUIVisible,
    regionSelection,  \* the regions of the region buttons, <<>> when there are none
    continueButton,   \* whether the Continue button of Find the Place is in the page
    \* CanvasView
    canvasGameMode,   \* canvasView.gameMode
    isPlacingPin,
    \* PlaceFinderModel
    places,
    currentPlace,
    currentRound,
    playerPins,
    scores,
    roundPlaces       \* history: the names startNewRound chose since the last resetGame

modelVars == <<countries, adjacencyMap, continentMap, countriesList, validPairs,
               svgLoaded, regionCountries, namedCountries, currentRegion>>

loadVars == <<pc, loadResult, svgFetch, adjacencyFetch, pairsFetch, regionFetch>>

controllerVars == <<initPc, isGameActive, currentGameMode, startCountry, endCountry,
                    currentPath, gameStats, selectedRegion, controllerNamedCountries,
                    placesLoading, lastEvent, renderedAt>>

menuVars == <<isMenuVisible, isGameUIVisible, regionSelection, continueButton>>

canvasVars == <<canvasGameMode, isPlacingPin>>

placeVars == <<places, currentPlace, currentRound, playerPins, scores, roundPlaces>>

\* everything outside the MapModel
gameVars == <<controllerVars, menuVars, canvasVars, placeVars>>

vars == <<modelVars, loadVars, ret, gameVars>>

----------------------------------------------------------------------------
(* Strings *)

\* '' and null: every test the code makes on them (!x, x || y) treats both alike
EmptyString == <<>>

UpperCase == <<"A","B","C","D","E","F","G","H","I","J","K","L","M",
               "N","O","P","Q","R","S","T","U","V","W","X","Y","Z">>

LowerCase == <<"a","b","c","d","e","f","g","h","i","j","k","l","m",
               "n","o","p","q","r","s","t","u","v","w","x","y","z">>

WhiteSpace == {" ", "\t", "\n"}

lowerOf == [c \in {UpperCase[i] : i \in DOMAIN UpperCase} |->
               LowerCase[CHOOSE i \in DOMAIN UpperCase : UpperCase[i] = c]]

LowerChar(c) == IF c \in DOMAIN lowerOf THEN lowerOf[c] ELSE c

\* String.prototype.toLowerCase
toLowerCase(s) == [i \in 1..Len(s) |-> LowerChar(s[i])]

upperOf == [c \in {LowerCase[i] : i \in DOMAIN LowerCase} |->
               UpperCase[CHOOSE i \in DOMAIN LowerCase : LowerCase[i] = c]]

UpperChar(c) == IF c \in DOMAIN upperOf THEN upperOf[c] ELSE c

\* String.prototype.toUpperCase
toUpperCase(s) == [i \in 1..Len(s) |-> UpperChar(s[i])]

RECURSIVE trimStart(_)
trimStart(s) ==
    IF s # <<>> /\ Head(s) \in WhiteSpace THEN trimStart(Tail(s)) ELSE s

RECURSIVE trimEnd(_)
trimEnd(s) ==
    IF s # <<>> /\ s[Len(s)] \in WhiteSpace
    THEN trimEnd(SubSeq(s, 1, Len(s) - 1))
    ELSE s

\* String.prototype.trim
trim(s) == trimEnd(trimStart(s))

\* String.prototype.includes
includes(s, sub) ==
    \E i \in 0..(Len(s) - Len(sub)) : SubSeq(s, i + 1, i + Len(sub)) = sub

Range(arr) == {arr[i] : i \in DOMAIN arr}

----------------------------------------------------------------------------
(* String literals of the code and of the data the model is checked with *)

Unknown == <<"U","n","k","n","o","w","n">>
DefaultFill == <<"#","e","c","e","c","e","c">>

France == <<"F","r","a","n","c","e">>
Germany == <<"G","e","r","m","a","n","y">>
Spain == <<"S","p","a","i","n">>
Japan == <<"J","a","p","a","n">>
UnitedStates == <<"U","n","i","t","e","d"," ","S","t","a","t","e","s">>
UnitedKingdom == <<"U","n","i","t","e","d"," ","K","i","n","g","d","o","m">>
Netherlands == <<"N","e","t","h","e","r","l","a","n","d","s">>
NorthMacedonia == <<"N","o","r","t","h"," ","M","a","c","e","d","o","n","i","a">>
CzechRepublic == <<"C","z","e","c","h"," ","R","e","p","u","b","l","i","c">>
Russia == <<"R","u","s","s","i","a">>
UnitedArabEmirates ==
    <<"U","n","i","t","e","d"," ","A","r","a","b"," ","E","m","i","r","a","t","e","s">>

NoRegion == "null"

----------------------------------------------------------------------------
(* JavaScript Map, as the sequence of its entries in insertion order *)

\* Map.prototype.has on the countries map
countriesHas(cs, name) == \E i \in DOMAIN cs : cs[i].name = name

\* the position of the entry Map.prototype.get finds, 0 for undefined
countriesIndex(cs, name) ==
    IF countriesHas(cs, name) THEN CHOOSE i \in DOMAIN cs : cs[i].name = name ELSE 0

\* Map.prototype.has / get / set on the regionCountries map
regionHas(rc, region) == \E i \in DOMAIN rc : rc[i].region = region

regionGet(rc, region) == rc[CHOOSE i \in DOMAIN rc : rc[i].region = region].countries

regionSet(rc, region, list) ==
    IF regionHas(rc, region)
    THEN [i \in DOMAIN rc |->
            IF rc[i].region = region THEN [region |-> region, countries |-> list] ELSE rc[i]]
    ELSE Append(rc, [region |-> region, countries |-> list])

EmptyMap == [x \in {} |-> {}]

----------------------------------------------------------------------------
(* Init: the state main.js leaves: the MapModel, MenuView and GameController    *)
(* constructed, init() awaiting loadMapData, loadMapData awaiting the SVG       *)

NoCall == [op |-> "none"]
Pending == [kind |-> "pending"]
NoEvent == [handler |-> "none"]

\* null, where a place is expected
NoPlace == [name |-> "", hasXY |-> FALSE, x |-> 0, y |-> 0]

totalRounds == 3

Init ==
    /\ countries = <<>>
    /\ adjacencyMap = EmptyMap
    /\ continentMap = EmptyMap
    /\ countriesList = <<>>
    /\ validPairs = <<>>
    /\ svgLoaded = FALSE
    /\ regionCountries = <<>>
    /\ namedCountries = {}
    /\ currentRegion = NoRegion
    /\ pc = "svg"
    /\ loadResult = "pending"
    /\ svgFetch = Pending
    /\ adjacencyFetch = Pending
    /\ pairsFetch = Pending
    /\ regionFetch = Pending
    /\ ret = NoCall
    /\ initPc = "awaiting"
    /\ isGameActive = FALSE
    /\ currentGameMode = "countryPath"
    /\ startCountry = EmptyString
    /\ endCountry = EmptyString
    /\ currentPath = <<>>
    /\ gameStats = [moves |-> 0, errors |-> 0]
    /\ selectedRegion = NoRegion
    /\ controllerNamedCountries = {}
    /\ placesLoading = 0
    /\ lastEvent = NoEvent
    /\ renderedAt = {}
    /\ isMenuVisible = TRUE
    /\ isGameUIVisible = FALSE
    /\ regionSelection = <<>>
    /\ continueButton = FALSE
    /\ canvasGameMode = "countryPath"
    /\ isPlacingPin = FALSE
    /\ places = <<>>
    /\ currentPlace = NoPlace
    /\ currentRound = 0
    /\ playerPins = <<>>
    /\ scores = <<>>
    /\ roundPlaces = <<>>

----------------------------------------------------------------------------
(* _processCountryPaths *)

\* const name = path.getAttribute('name') || id || 'Unknown'
pathName(path) ==
    IF path.name # EmptyString THEN path.name
    ELSE IF path.id # EmptyString THEN path.id
    ELSE Unknown

\* a plausible slip: a repeated name replaces the country's paths
processPathReplacing(cs, path) ==
    LET name == pathName(path)
        fill == IF path.fill # EmptyString THEN path.fill ELSE DefaultFill
        continent == IF path.class # EmptyString THEN path.class ELSE Unknown
    IN  IF path.d = EmptyString THEN cs
        ELSE IF countriesHas(cs, name)
        THEN [i \in DOMAIN cs |->
                IF cs[i].name = name
                THEN [cs[i] EXCEPT !.paths = <<path.d>>]
                ELSE cs[i]]
        ELSE Append(cs, [id |-> path.id, name |-> name, fill |-> fill,
                         paths |-> <<path.d>>, selected |-> FALSE,
                         isStart |-> FALSE, isEnd |-> FALSE,
                         continent |-> continent])

\* the body of paths.forEach: one path element added to the countries map
processPath(cs, path) ==
    LET name == pathName(path)
        fill == IF path.fill # EmptyString THEN path.fill ELSE DefaultFill
        continent == IF path.class # EmptyString THEN path.class ELSE Unknown
    IN  IF path.d = EmptyString THEN cs
        ELSE IF countriesHas(cs, name)
        THEN [i \in DOMAIN cs |->
                IF cs[i].name = name
                THEN [cs[i] EXCEPT !.paths = Append(@, path.d)]
                ELSE cs[i]]
        ELSE Append(cs, [id |-> path.id, name |-> name, fill |-> fill,
                         paths |-> <<path.d>>, selected |-> FALSE,
                         isStart |-> FALSE, isEnd |-> FALSE,
                         continent |-> continent])

RECURSIVE processPaths(_, _)
processPaths(paths, cs) ==
    IF paths = <<>> THEN cs
    ELSE processPaths(Tail(paths), processPath(cs, Head(paths)))

\* this.continentMap.set(name, continent), done when the country is created
continentsOf(cs) ==
    [n \in {cs[i].name : i \in DOMAIN cs} |-> cs[countriesIndex(cs, n)].continent]

\* Array.from(this.countries.keys())
keysOf(cs) == [i \in DOMAIN cs |-> cs[i].name]

\* loadMapData up to its first side-table fetch: the SVG is fetched and parsed and
\* _processCountryPaths runs; any throw is caught by loadMapData, which returns false
LoadSvg(Responses) ==
    /\ pc = "svg"
    /\ \E r \in Responses :
        /\ svgFetch' = r
        /\ IF r.kind # "ok"
           THEN /\ pc' = "done"
                /\ loadResult' = "false"
                /\ UNCHANGED <<countries, continentMap, countriesList>>
           ELSE IF Len(r.paths) = 0
           THEN /\ pc' = "done"
                /\ loadResult' = "false"
                /\ countries' = <<>>
                /\ continentMap' = EmptyMap
                /\ UNCHANGED countriesList
           ELSE /\ pc' = "adjacency"
                /\ loadResult' = "pending"
                /\ countries' = processPaths(r.paths, <<>>)
                /\ continentMap' = continentsOf(countries')
                /\ countriesList' = keysOf(countries')
    /\ UNCHANGED <<adjacencyMap, validPairs, svgLoaded, regionCountries, namedCountries,
                   currentRegion, adjacencyFetch, pairsFetch, regionFetch, ret>>
    /\ UNCHANGED gameVars

----------------------------------------------------------------------------
(* _loadAdjacencyData and _generateFallbackAdjacency *)

\* A side-table fetch ends in one of: "networkError" (fetch rejects), "notOk"
\* (response.ok is false), "badJson" (response.json() rejects) or "ok" with the
\* parsed value; hasKey says whether the value has a truthy property of the
\* expected name (adjacency, validPairs, regions).
Throws(r) == r.kind \in {"networkError", "notOk", "badJson"}

\* the forEach over Object.entries(adjacencyData.adjacency), after clear():
\* this.adjacencyMap.set(country, new Set(neighbors))
adjacencyFromData(adjacency) == [c \in DOMAIN adjacency |-> Range(adjacency[c])]

\* the countries _generateFallbackAdjacency may link to countryName: the others of
\* the same continent, when that continent is not 'Unknown'
fallbackCandidates(countryName) ==
    {otherName \in Range(countriesList) :
        /\ countryName # otherName
        /\ continentMap[countryName] = continentMap[otherName]
        /\ continentMap[countryName] # Unknown}

\* _generateFallbackAdjacency on the map adj; added[c] are the candidates of c
\* for which Math.random() < 0.2 came out true
generateFallbackAdjacency(adj, added) ==
    [c \in DOMAIN adj \cup Range(countriesList) |->
        (IF c \in DOMAIN adj THEN adj[c] ELSE {})
        \cup (IF c \in Range(countriesList) THEN added[c] ELSE {})]

LoadAdjacencyData(Responses) ==
    /\ pc = "adjacency"
    /\ \E r \in Responses :
        /\ adjacencyFetch' = r
        /\ IF Throws(r)
           THEN \E added \in [Range(countriesList) -> SUBSET Range(countriesList)] :
                   /\ \A c \in Range(countriesList) : added[c] \subseteq fallbackCandidates(c)
                   /\ adjacencyMap' = generateFallbackAdjacency(adjacencyMap, added)
           ELSE adjacencyMap' = IF r.hasKey THEN adjacencyFromData(r.adjacency) ELSE EmptyMap
    /\ pc' = "pairs"
    /\ UNCHANGED <<countries, continentMap, countriesList, validPairs, svgLoaded,
                   regionCountries, namedCountries, currentRegion, loadResult,
                   svgFetch, pairsFetch, regionFetch, ret>>
    /\ UNCHANGED gameVars

----------------------------------------------------------------------------
(* _loadCountryPairs *)

\* a plausible slip: no try / catch, so a failed fetch aborts loadMapData
LoadCountryPairsUncaught(Responses) ==
    /\ pc = "pairs"
    /\ \E r \in Responses :
        /\ pairsFetch' = r
        /\ validPairs' = IF ~Throws(r) /\ r.hasKey THEN r.validPairs ELSE validPairs
        /\ IF Throws(r)
           THEN pc' = "done" /\ loadResult' = "false"
           ELSE pc' = "regions" /\ UNCHANGED loadResult
    /\ UNCHANGED <<countries, adjacencyMap, continentMap, countriesList, svgLoaded,
                   regionCountries, namedCountries, currentRegion,
                   svgFetch, adjacencyFetch, regionFetch, ret>>
    /\ UNCHANGED gameVars

LoadCountryPairs(Responses) ==
    /\ pc = "pairs"
    /\ \E r \in Responses :
        /\ pairsFetch' = r
        /\ validPairs' = IF ~Throws(r) /\ r.hasKey THEN r.validPairs ELSE validPairs
    /\ pc' = "regions"
    /\ UNCHANGED <<countries, adjacencyMap, continentMap, countriesList, svgLoaded,
                   regionCountries, namedCountries, currentRegion, loadResult,
                   svgFetch, adjacencyFetch, regionFetch, ret>>
    /\ UNCHANGED gameVars

----------------------------------------------------------------------------
(* _loadRegionCountries and _generateFallbackRegions *)

\* the forEach over Object.entries(regionData.regions), after clear(): each list
\* filtered to the countries of the map
RECURSIVE regionsFromData(_, _)
regionsFromData(entries, rc) ==
    IF entries = <<>> THEN rc
    ELSE regionsFromData(
            Tail(entries),
            regionSet(rc, Head(entries).region,
                      SelectSeq(Head(entries).countries,
                                LAMBDA country : countriesHas(countries, country))))

\* if (!this.regionCountries.has("World")) set("World", [...this.countriesList])
addWorld(rc) == IF regionHas(rc, "World") THEN rc ELSE regionSet(rc, "World", countriesList)

kwEurope == <<"e","u","r","o","p","e">>
kwAmerica == <<"a","m","e","r","i","c","a">>
kwNorth == <<"n","o","r","t","h">>
kwSouth == <<"s","o","u","t","h">>
kwCaribbean == <<"c","a","r","i","b","b","e","a","n">>
kwAsia == <<"a","s","i","a">>
kwMiddleEast == <<"m","i","d","d","l","e"," ","e","a","s","t">>
kwAfrica == <<"a","f","r","i","c","a">>

\* the bucket the if / else-if chain of _generateFallbackRegions puts a country in
fallbackBucket(countryName) ==
    LET continentLower == toLowerCase(continentMap[countryName])
    IN  IF includes(continentLower, kwEurope) THEN "Europe"
        ELSE IF \/ includes(continentLower, kwAmerica)
                \/ includes(continentLower, kwNorth)
                \/ includes(continentLower, kwSouth)
                \/ includes(continentLower, kwCaribbean) THEN "America"
        ELSE IF \/ includes(continentLower, kwAsia)
                \/ includes(continentLower, kwMiddleEast) THEN "Asia"
        ELSE IF includes(continentLower, kwAfrica) THEN "Africa"
        ELSE "other"

bucketList(bucket) ==
    SelectSeq(countriesList, LAMBDA countryName : fallbackBucket(countryName) = bucket)

generateFallbackRegions(rc) ==
    regionSet(
      regionSet(
        regionSet(
          regionSet(
            regionSet(rc, "Europe", bucketList("Europe")),
            "America", bucketList("America")),
          "Asia", bucketList("Asia")),
        "Africa", bucketList("Africa")),
      "World", countriesList)

\* the last step of loadMapData: the region table, then svgLoaded = true; return
\* true. A response of kind "badList" is a payload in which the entries r.regions
\* are followed by one whose value is no array: countries.filter throws after
\* clear() and after the entries before it were set, and the catch block runs.
LoadRegionCountries(Responses) ==
    /\ pc = "regions"
    /\ \E r \in Responses :
        /\ regionFetch' = r
        /\ regionCountries' =
              IF Throws(r) THEN generateFallbackRegions(regionCountries)
              ELSE IF r.kind = "badList"
              THEN generateFallbackRegions(regionsFromData(r.regions, <<>>))
              ELSE IF r.hasKey THEN addWorld(regionsFromData(r.regions, <<>>))
              ELSE regionCountries
    /\ svgLoaded' = TRUE
    /\ pc' = "done"
    /\ loadResult' = "true"
    /\ UNCHANGED <<countries, adjacencyMap, continentMap, countriesList, validPairs,
                   namedCountries, currentRegion, svgFetch, adjacencyFetch, pairsFetch, ret>>
    /\ UNCHANGED gameVars

----------------------------------------------------------------------------
(* isAdjacent *)

\* a plausible slip: only the first country's neighbour set is consulted
isAdjacentOneWay(country1, country2) ==
    IF country1 \notin DOMAIN adjacencyMap \/ country2 \notin DOMAIN adjacencyMap
    THEN FALSE
    ELSE country2 \in adjacencyMap[country1]

isAdjacent(country1, country2) ==
    IF country1 \notin DOMAIN adjacencyMap \/ country2 \notin DOMAIN adjacencyMap
    THEN FALSE
    ELSE country2 \in adjacencyMap[country1] \/ country1 \in adjacencyMap[country2]

\* a call of isAdjacent; the controller calls the lookups only from the input
\* handlers, which it installs after loadMapData has returned true
IsAdjacent(country1, country2) ==
    /\ svgLoaded
    /\ ret' = [op |-> "isAdjacent", country1 |-> country1, country2 |-> country2,
               result |-> isAdjacent(country1, country2)]
    /\ UNCHANGED <<modelVars, loadVars>>
    /\ UNCHANGED gameVars

----------------------------------------------------------------------------
(* getRandomCountryPair and _generateRandomCountryPair *)

\* null, where a pair {start, end} is expected
NoPair == [start |-> EmptyString, end |-> EmptyString]

maxAttempts == 100

\* the candidates the while loop accepts as start country
validStartCountries ==
    {c \in Range(countriesList) : c \in DOMAIN adjacencyMap /\ adjacencyMap[c] # {}}

\* whether all maxAttempts draws can come out on candidates the loop rejects: some
\* country is rejected, or the list is empty and every candidate is undefined
allAttemptsCanMiss ==
    \/ maxAttempts <= 0
    \/ Len(countriesList) = 0
    \/ Range(countriesList) # validStartCountries

\* the 'last resort' when no start country was found
lastResortPair ==
    IF Len(countriesList) >= 2
    THEN [start |-> countriesList[1], end |-> countriesList[2]]
    ELSE NoPair

\* possibleEndCountries, as the forEach over countriesList fills it
possibleEndCountries(startCountryName) ==
    SelectSeq(countriesList,
              LAMBDA countryName :
                 /\ countryName # startCountryName
                 /\ \/ /\ continentMap[countryName] = continentMap[startCountryName]
                       /\ continentMap[startCountryName] # Unknown
                    \/ isAdjacent(startCountryName, countryName))

nonStartCountries(startCountryName) ==
    SelectSeq(countriesList, LAMBDA name : name # startCountryName)

\* the pairs _generateRandomCountryPair can return once startCountryName is chosen
pairsFrom(startCountryName) ==
    LET ends == IF Len(possibleEndCountries(startCountryName)) = 0
                THEN nonStartCountries(startCountryName)
                ELSE possibleEndCountries(startCountryName)
    IN  IF Len(ends) = 0 THEN {NoPair}
        ELSE {[start |-> startCountryName, end |-> ends[k]] : k \in DOMAIN ends}

\* the values _generateRandomCountryPair can return, over the outcomes of
\* Math.random()
generateRandomCountryPair ==
    UNION {pairsFrom(s) : s \in IF maxAttempts > 0 THEN validStartCountries ELSE {}}
    \cup (IF allAttemptsCanMiss THEN {lastResortPair} ELSE {})

\* the values getRandomCountryPair can return, over the outcomes of Math.random()
getRandomCountryPair ==
    IF ~svgLoaded \/ Len(countries) = 0 THEN {NoPair}
    ELSE IF Len(validPairs) > 0
    THEN UNION {IF /\ countriesHas(countries, validPairs[randomIndex].start)
                   /\ countriesHas(countries, validPairs[randomIndex].end)
                THEN {[start |-> validPairs[randomIndex].start,
                       end |-> validPairs[randomIndex].end]}
                ELSE generateRandomCountryPair : randomIndex \in DOMAIN validPairs}
    ELSE generateRandomCountryPair

\* a call of getRandomCountryPair; startGame is its only caller, and the play
\* handler is installed after loadMapData has returned true
GetRandomCountryPair ==
    /\ svgLoaded
    /\ \E pair \in getRandomCountryPair :
          ret' = [op |-> "getRandomCountryPair", result |-> pair]
    /\ UNCHANGED <<modelVars, loadVars>>
    /\ UNCHANGED gameVars

----------------------------------------------------------------------------
(* getCountryByName *)

kUsa == <<"u","s","a">>
kUnitedStatesOfAmerica ==
    <<"u","n","i","t","e","d"," ","s","t","a","t","e","s"," ","o","f"," ",
      "a","m","e","r","i","c","a">>
kUk == <<"u","k">>
kGreatBritain == <<"g","r","e","a","t"," ","b","r","i","t","a","i","n">>
kEngland == <<"e","n","g","l","a","n","d">>
kHolland == <<"h","o","l","l","a","n","d">>
kMacedonia == <<"m","a","c","e","d","o","n","i","a">>
kCzechia == <<"c","z","e","c","h","i","a">>
kRussia == <<"r","u","s","s","i","a">>
kAmerica == <<"a","m","e","r","i","c","a">>
kUae == <<"u","a","e">>

\* the object literal specialCases. (A name inherited from Object.prototype, such
\* as 'constructor', is truthy too, but is no key of the countries map, so the
\* lookup falls through exactly as for a name that is no key.)
specialCases ==
    (kUsa :> UnitedStates) @@ (kUnitedStatesOfAmerica :> UnitedStates)
    @@ (kUk :> UnitedKingdom) @@ (kGreatBritain :> UnitedKingdom)
    @@ (kEngland :> UnitedKingdom) @@ (kHolland :> Netherlands)
    @@ (kMacedonia :> NorthMacedonia) @@ (kCzechia :> CzechRepublic)
    @@ (kRussia :> Russia) @@ (kAmerica :> UnitedStates)
    @@ (kUae :> UnitedArabEmirates)

Least(S) == CHOOSE i \in S : \A j \in S : i <= j

\* a plausible slip: the input is lower-cased but not trimmed
normalizedNameUntrimmed(name) == toLowerCase(name)

\* const normalizedName = name.trim().toLowerCase()
normalizedName(name) == toLowerCase(trim(name))

\* the first loop: the entries whose lower-cased key equals normalizedName
directMatches(normalized) ==
    {i \in DOMAIN countries : toLowerCase(countries[i].name) = normalized}

\* the special-case lookup: the entry of the official name, 0 when there is none
specialCaseMatch(normalized) ==
    IF normalized \in DOMAIN specialCases
    THEN countriesIndex(countries, specialCases[normalized])
    ELSE 0

\* the region loops: <<r, k>> such that the k-th name of the r-th region matches
\* and is a key of the countries map
regionMatches(normalized) ==
    IF ~regionHas(regionCountries, "Europe") THEN {}
    ELSE {rk \in UNION {{<<r, k>> : k \in DOMAIN regionCountries[r].countries} :
                            r \in DOMAIN regionCountries} :
            /\ toLowerCase(regionCountries[rk[1]].countries[rk[2]]) = normalized
            /\ countriesHas(countries, regionCountries[rk[1]].countries[rk[2]])}

firstRegionMatch(normalized) ==
    LET hits == regionMatches(normalized)
        r == Least({rk[1] : rk \in hits})
        k == Least({rk[2] : rk \in {h \in hits : h[1] = r}})
    IN  countriesIndex(countries, regionCountries[r].countries[k])

\* a plausible slip: the alias table is consulted before the registry
getCountryByNameStageAliasFirst(name) ==
    IF name = EmptyString THEN "empty"
    ELSE IF specialCaseMatch(normalizedName(name)) # 0 THEN "special"
    ELSE IF directMatches(normalizedName(name)) # {} THEN "direct"
    ELSE IF regionMatches(normalizedName(name)) # {} THEN "region"
    ELSE "none"

\* the stage of getCountryByName that returns
getCountryByNameStage(name) ==
    IF name = EmptyString THEN "empty"
    ELSE IF directMatches(normalizedName(name)) # {} THEN "direct"
    ELSE IF specialCaseMatch(normalizedName(name)) # 0 THEN "special"
    ELSE IF regionMatches(normalizedName(name)) # {} THEN "region"
    ELSE "none"

\* getCountryByName: the position in countries of the country data returned, 0 for null
getCountryByName(name) ==
    LET stage == getCountryByNameStage(name)
    IN  CASE stage = "direct" -> Least(directMatches(normalizedName(name)))
          [] stage = "special" -> specialCaseMatch(normalizedName(name))
          [] stage = "region" -> firstRegionMatch(normalizedName(name))
          [] OTHER -> 0

GetCountryByName(name) ==
    /\ svgLoaded
    /\ ret' = [op |-> "getCountryByName", name |-> name,
               result |-> getCountryByName(name),
               stage |-> getCountryByNameStage(name)]
    /\ UNCHANGED <<modelVars, loadVars>>
    /\ UNCHANGED gameVars

----------------------------------------------------------------------------
(* setRegion, getCurrentRegionCountries *)

\* a plausible slip: the named set is cleared before the region is looked up
SetRegionClearsFirst(region) ==
    /\ namedCountries' = {}
    /\ IF regionHas(regionCountries, region)
       THEN /\ currentRegion' = region
            /\ UNCHANGED regionCountries
            /\ ret' = [op |-> "setRegion", region |-> region, result |-> TRUE]
       ELSE IF region = "World"
       THEN /\ currentRegion' = "World"
            /\ regionCountries' = regionSet(regionCountries, "World", countriesList)
            /\ ret' = [op |-> "setRegion", region |-> region, result |-> TRUE]
       ELSE /\ UNCHANGED <<currentRegion, regionCountries>>
            /\ ret' = [op |-> "setRegion", region |-> region, result |-> FALSE]
    /\ UNCHANGED <<countries, adjacencyMap, continentMap, countriesList, validPairs,
                   svgLoaded, loadVars>>
    /\ UNCHANGED gameVars

\* a call of setRegion, at any time: the region choice is offered as soon as the
\* page is up
SetRegion(region) ==
    /\ IF regionHas(regionCountries, region)
       THEN /\ currentRegion' = region
            /\ namedCountries' = {}
            /\ UNCHANGED regionCountries
            /\ ret' = [op |-> "setRegion", region |-> region, result |-> TRUE]
       ELSE IF region = "World"
       THEN /\ currentRegion' = "World"
            /\ namedCountries' = {}
            /\ regionCountries' = regionSet(regionCountries, "World", countriesList)
            /\ ret' = [op |-> "setRegion", region |-> region, result |-> TRUE]
       ELSE /\ UNCHANGED <<currentRegion, namedCountries, regionCountries>>
            /\ ret' = [op |-> "setRegion", region |-> region, result |-> FALSE]
    /\ UNCHANGED <<countries, adjacencyMap, continentMap, countriesList, validPairs,
                   svgLoaded, loadVars>>
    /\ UNCHANGED gameVars

getCurrentRegionCountries ==
    IF currentRegion = NoRegion \/ ~regionHas(regionCountries, currentRegion)
    THEN <<>>
    ELSE regionGet(regionCountries, currentRegion)

----------------------------------------------------------------------------
(* isCountryInCurrentRegion, markCountryNamed *)

matchesIn(list, normalizedInput) ==
    {k \in DOMAIN list : toLowerCase(list[k]) = normalizedInput}

\* regionCountries.get(currentRegion) || []
currentRegionList ==
    IF regionHas(regionCountries, currentRegion)
    THEN regionGet(regionCountries, currentRegion)
    ELSE <<>>

isCountryInCurrentRegion(countryName) ==
    LET normalizedInput == toLowerCase(trim(countryName))
    IN  IF currentRegion = NoRegion THEN FALSE
        ELSE IF currentRegion = "World"
        THEN \/ \E r \in DOMAIN regionCountries :
                  matchesIn(regionCountries[r].countries, normalizedInput) # {}
             \/ matchesIn(countriesList, normalizedInput) # {}
        ELSE matchesIn(currentRegionList, normalizedInput) # {}

\* the name markCountryNamed adds to namedCountries: for World the first match of
\* countriesList, else the first match of the last region that has one; for
\* another region the first match of its list; the input itself when none matches
exactCountryName(countryName) ==
    LET normalizedInput == toLowerCase(trim(countryName))
        hitRegions == {r \in DOMAIN regionCountries :
                          matchesIn(regionCountries[r].countries, normalizedInput) # {}}
        lastRegion == CHOOSE r \in hitRegions : \A q \in hitRegions : q <= r
    IN  IF currentRegion = "World"
        THEN IF matchesIn(countriesList, normalizedInput) # {}
             THEN countriesList[Least(matchesIn(countriesList, normalizedInput))]
             ELSE IF hitRegions # {}
             THEN regionCountries[lastRegion].countries[
                      Least(matchesIn(regionCountries[lastRegion].countries,
                                      normalizedInput))]
             ELSE countryName
        ELSE IF matchesIn(currentRegionList, normalizedInput) # {}
             THEN currentRegionList[Least(matchesIn(currentRegionList, normalizedInput))]
             ELSE countryName

\* setCountryHighlight(countryName, selected) on the countries map cs
setCountryHighlight(cs, countryName, selected) ==
    [i \in DOMAIN cs |->
        IF i = getCountryByName(countryName)
        THEN [cs[i] EXCEPT !.selected = selected]
        ELSE cs[i]]

MarkCountryNamed(countryName) ==
    /\ svgLoaded
    /\ IF isCountryInCurrentRegion(countryName) /\ countryName \notin namedCountries
       THEN /\ namedCountries' = namedCountries \cup {exactCountryName(countryName)}
            /\ countries' = setCountryHighlight(countries, exactCountryName(countryName), TRUE)
            /\ ret' = [op |-> "markCountryNamed", countryName |-> countryName,
                       result |-> TRUE]
       ELSE /\ UNCHANGED <<namedCountries, countries>>
            /\ ret' = [op |-> "markCountryNamed", countryName |-> countryName,
                       result |-> FALSE]
    /\ UNCHANGED <<adjacencyMap, continentMap, countriesList, validPairs, svgLoaded,
                   regionCountries, currentRegion, loadVars>>
    /\ UNCHANGED gameVars

----------------------------------------------------------------------------
(* MapModel methods the controller calls, as functions of the state *)

\* resetCountryHighlights on the countries map cs
resetCountryHighlights(cs) ==
    [i \in DOMAIN cs |->
        [cs[i] EXCEPT !.selected = FALSE, !.isStart = FALSE, !.isEnd = FALSE]]

\* setCountryEndpoint(countryName, type) on the countries map cs
setCountryEndpoint(cs, countryName, type) ==
    [i \in DOMAIN cs |->
        IF i = getCountryByName(countryName)
        THEN IF type = "start" THEN [cs[i] EXCEPT !.isStart = TRUE]
             ELSE IF type = "end" THEN [cs[i] EXCEPT !.isEnd = TRUE]
             ELSE cs[i]
        ELSE cs[i]]

\* what setRegion(region) returns, and the region map and current region it leaves
setRegionResult(region) == regionHas(regionCountries, region) \/ region = "World"

regionCountriesAfterSetRegion(region) ==
    IF ~regionHas(regionCountries, region) /\ region = "World"
    THEN regionSet(regionCountries, "World", countriesList)
    ELSE regionCountries

\* getAvailableRegions
getAvailableRegions ==
    IF Len(regionCountries) = 0
    THEN <<"Europe", "America", "Asia", "Africa", "World">>
    ELSE [i \in DOMAIN regionCountries |-> regionCountries[i].region]

\* areAllCountriesNamed, for the region map rc, the current region and the named set
areAllCountriesNamed(rc, region, named) ==
    /\ region # NoRegion
    /\ Cardinality(named) = (IF regionHas(rc, region) THEN Len(regionGet(rc, region)) ELSE 0)

\* getRemainingCountsForRegion().remaining
remainingCount ==
    IF currentRegion = NoRegion THEN 0
    ELSE Len(currentRegionList) - Cardinality(namedCountries)

----------------------------------------------------------------------------
(* GameController *)

\* _normalizeCountryName: trim, then each word split off at ' ' gets its first
\* letter in upper case and the others in lower case
normalizeCountryName(name) ==
    LET trimmed == trim(name)
    IN  [i \in 1..Len(trimmed) |->
            IF i = 1 \/ trimmed[i - 1] = " "
            THEN UpperChar(trimmed[i])
            ELSE LowerChar(trimmed[i])]

\* No user event is handled between the return of loadMapData and the rest of
\* init(): the continuation of an await is a microtask, an event a task.
eventLoopIdle == ~(pc = "done" /\ initPc = "awaiting")

\* init() after await loadMapData: on success the map is rendered and the play
\* and input handlers are installed
InitAfterLoad ==
    /\ initPc = "awaiting"
    /\ pc = "done"
    /\ IF loadResult = "true"
       THEN initPc' = "ready" /\ renderedAt' = renderedAt \cup {loadResult}
       ELSE initPc' = "failed" /\ UNCHANGED renderedAt
    /\ lastEvent' = [handler |-> "init"]
    /\ UNCHANGED <<modelVars, loadVars, ret, menuVars, canvasVars, placeVars,
                   isGameActive, currentGameMode, startCountry, endCountry, currentPath,
                   gameStats, selectedRegion, controllerNamedCountries, placesLoading>>

\* startGame, the handler of the play button, which init() installs after a
\* successful load; the button is part of the menu
StartGame ==
    /\ initPc = "ready"
    /\ isMenuVisible
    /\ isGameActive' = TRUE
    /\ currentGameMode' = "countryPath"
    /\ canvasGameMode' = "countryPath"
    /\ isMenuVisible' = FALSE
    /\ isGameUIVisible' = TRUE
    /\ \E countryPair \in getRandomCountryPair :
          /\ lastEvent' = [handler |-> "startGame", countryPair |-> countryPair]
          /\ IF countryPair = NoPair
             THEN /\ countries' = resetCountryHighlights(countries)
                  /\ UNCHANGED <<startCountry, endCountry, currentPath, gameStats,
                                 renderedAt>>
             ELSE /\ startCountry' = countryPair.start
                  /\ endCountry' = countryPair.end
                  /\ countries' =
                        setCountryHighlight(
                           setCountryEndpoint(
                              setCountryEndpoint(resetCountryHighlights(countries),
                                                 countryPair.start, "start"),
                              countryPair.end, "end"),
                           countryPair.start, TRUE)
                  /\ currentPath' = <<countryPair.start>>
                  /\ gameStats' = [moves |-> 0, errors |-> 0]
                  /\ renderedAt' = renderedAt \cup {loadResult}
    /\ UNCHANGED <<adjacencyMap, continentMap, countriesList, validPairs, svgLoaded,
                   regionCountries, namedCountries, currentRegion, loadVars, ret,
                   initPc, selectedRegion, controllerNamedCountries, placesLoading,
                   regionSelection, continueButton, isPlacingPin, placeVars>>

MaxErrors == 2         \* the rejected inputs counted in gameStats.errors

\* a plausible slip: every try is counted as a move, the rejected ones too
handleInvalidInputCountingMove(typed, countryName, reason) ==
    /\ gameStats.errors < MaxErrors
    /\ gameStats' = [gameStats EXCEPT !.errors = @ + 1, !.moves = @ + 1]
    /\ lastEvent' = [handler |-> "handleCountryInput", typed |-> typed,
                     countryName |-> countryName, accepted |-> FALSE, reason |-> reason]
    /\ UNCHANGED <<modelVars, loadVars, ret, menuVars, canvasVars, placeVars, initPc,
                   isGameActive, currentGameMode, startCountry, endCountry, currentPath,
                   selectedRegion, controllerNamedCountries, placesLoading, renderedAt>>

\* _handleInvalidInput: the error is counted and shown
handleInvalidInput(typed, countryName, reason) ==
    /\ gameStats.errors < MaxErrors
    /\ gameStats' = [gameStats EXCEPT !.errors = @ + 1]
    /\ lastEvent' = [handler |-> "handleCountryInput", typed |-> typed,
                     countryName |-> countryName, accepted |-> FALSE, reason |-> reason]
    /\ UNCHANGED <<modelVars, loadVars, ret, menuVars, canvasVars, placeVars, initPc,
                   isGameActive, currentGameMode, startCountry, endCountry, currentPath,
                   selectedRegion, controllerNamedCountries, placesLoading, renderedAt>>

\* a plausible slip: the test for a country already in the path is missing
handleCountryPathInputNoUsedTest(typed, countryName) ==
    IF Len(currentPath) = 0 \/ ~isAdjacent(currentPath[Len(currentPath)], countryName)
    THEN handleInvalidInput(typed, countryName, "not-adjacent")
    ELSE /\ currentPath' = Append(currentPath, countryName)
         /\ gameStats' = [gameStats EXCEPT !.moves = @ + 1]
         /\ countries' = setCountryHighlight(countries, countryName, TRUE)
         /\ renderedAt' = renderedAt \cup {loadResult}
         /\ isGameActive' = IF countryName = endCountry THEN FALSE ELSE isGameActive
         /\ lastEvent' = [handler |-> "handleCountryInput", typed |-> typed,
                          countryName |-> countryName, accepted |-> TRUE,
                          reason |-> "correct"]
         /\ UNCHANGED <<adjacencyMap, continentMap, countriesList, validPairs, svgLoaded,
                        regionCountries, namedCountries, currentRegion, loadVars, ret,
                        menuVars, canvasVars, placeVars, initPc, currentGameMode,
                        startCountry, endCountry, selectedRegion,
                        controllerNamedCountries, placesLoading>>

\* _handleCountryPathInput(countryName); the last country of an empty path is
\* undefined, which has no entry in the adjacency map
handleCountryPathInput(typed, countryName) ==
    IF countryName \in Range(currentPath)
    THEN handleInvalidInput(typed, countryName, "already-used")
    ELSE IF Len(currentPath) = 0
            \/ ~isAdjacent(currentPath[Len(currentPath)], countryName)
    THEN handleInvalidInput(typed, countryName, "not-adjacent")
    ELSE /\ currentPath' = Append(currentPath, countryName)
         /\ gameStats' = [gameStats EXCEPT !.moves = @ + 1]
         /\ countries' = setCountryHighlight(countries, countryName, TRUE)
         /\ renderedAt' = renderedAt \cup {loadResult}
         /\ isGameActive' = IF countryName = endCountry THEN FALSE ELSE isGameActive
         /\ lastEvent' = [handler |-> "handleCountryInput", typed |-> typed,
                          countryName |-> countryName, accepted |-> TRUE,
                          reason |-> "correct"]
         /\ UNCHANGED <<adjacencyMap, continentMap, countriesList, validPairs, svgLoaded,
                        regionCountries, namedCountries, currentRegion, loadVars, ret,
                        menuVars, canvasVars, placeVars, initPc, currentGameMode,
                        startCountry, endCountry, selectedRegion,
                        controllerNamedCountries, placesLoading>>

\* _handleNameThemAllInput(countryName), which normalizes the input once more
handleNameThemAllInput(typed, countryName) ==
    LET normalizedCountryName == normalizeCountryName(countryName)
        marks == /\ isCountryInCurrentRegion(normalizedCountryName)
                 /\ normalizedCountryName \notin namedCountries
    IN  IF ~isCountryInCurrentRegion(normalizedCountryName)
        THEN handleInvalidInput(typed, normalizedCountryName, "not-in-region")
        ELSE IF normalizedCountryName \in controllerNamedCountries
        THEN handleInvalidInput(typed, normalizedCountryName, "already-named")
        ELSE /\ controllerNamedCountries' =
                    controllerNamedCountries \cup {normalizedCountryName}
             /\ IF marks
                THEN /\ namedCountries' =
                           namedCountries \cup {exactCountryName(normalizedCountryName)}
                     /\ countries' =
                           setCountryHighlight(countries,
                                               exactCountryName(normalizedCountryName), TRUE)
                ELSE UNCHANGED <<namedCountries, countries>>
             /\ renderedAt' = renderedAt \cup {loadResult}
             /\ isGameActive' =
                   IF areAllCountriesNamed(regionCountries, currentRegion, namedCountries')
                   THEN FALSE
                   ELSE isGameActive
             /\ lastEvent' = [handler |-> "handleCountryInput", typed |-> typed,
                              countryName |-> normalizedCountryName, accepted |-> TRUE,
                              reason |-> "named"]
             /\ UNCHANGED <<adjacencyMap, continentMap, countriesList, validPairs,
                            svgLoaded, regionCountries, currentRegion, loadVars, ret,
                            menuVars, canvasVars, placeVars, initPc, currentGameMode,
                            startCountry, endCountry, currentPath, gameStats,
                            selectedRegion, placesLoading>>

\* the keydown listener of the input field, which init() installs after a
\* successful load: the trimmed value, unless empty, goes to handleCountryInput
HandleCountryInput(typed) ==
    LET originalInput == trim(typed)
        countryName == normalizeCountryName(originalInput)
    IN  /\ initPc = "ready"
        /\ originalInput # EmptyString
        /\ isGameActive
        /\ IF currentGameMode = "nameThemAll"
           THEN handleNameThemAllInput(typed, originalInput)
           ELSE IF getCountryByName(countryName) = 0
           THEN handleInvalidInput(typed, countryName, "not-found")
           ELSE handleCountryPathInput(typed, countryName)

\* showRegionSelection, the listener of the selectRegion event, which the Name
\* Them All button of the menu dispatches
ShowRegionSelection ==
    /\ eventLoopIdle
    /\ isMenuVisible
    /\ isMenuVisible' = FALSE
    /\ regionSelection' = getAvailableRegions
    /\ lastEvent' = [handler |-> "showRegionSelection"]
    /\ UNCHANGED <<modelVars, loadVars, ret, canvasVars, placeVars, isGameUIVisible,
                   continueButton, initPc, isGameActive, currentGameMode, startCountry,
                   endCountry, currentPath, gameStats, selectedRegion,
                   controllerNamedCountries, placesLoading, renderedAt>>

\* startNameThemAllGame(region), the handler of the region buttons. (The
\* 'alternative' for Europe is never taken: setRegion fails only for a region the
\* map does not have.)
StartNameThemAllGame(region) ==
    /\ eventLoopIdle
    /\ region \in Range(regionSelection)
    /\ isGameActive' = TRUE
    /\ currentGameMode' = "nameThemAll"
    /\ canvasGameMode' = "nameThemAll"
    /\ selectedRegion' = region
    /\ currentRegion' = IF setRegionResult(region) THEN region ELSE currentRegion
    /\ regionCountries' = regionCountriesAfterSetRegion(region)
    /\ controllerNamedCountries' = {}
    /\ namedCountries' = {}
    /\ countries' = resetCountryHighlights(countries)
    /\ isGameUIVisible' = TRUE
    /\ renderedAt' = renderedAt \cup {loadResult}
    /\ regionSelection' = <<>>
    /\ lastEvent' = [handler |-> "startNameThemAllGame", region |-> region,
                     regionSet |-> setRegionResult(region)]
    /\ UNCHANGED <<adjacencyMap, continentMap, countriesList, validPairs, svgLoaded,
                   loadVars, ret, placeVars, isMenuVisible, continueButton,
                   isPlacingPin, initPc, startCountry, endCountry, currentPath,
                   gameStats, placesLoading>>

MaxPlacesLoading == 2  \* the calls of startFindPlaceGame suspended at one time

\* startFindPlaceGame up to await loadPlacesData(); it is the listener of the
\* startFindPlace event, which the Find the Place button of the menu dispatches
StartFindPlaceGame ==
    /\ eventLoopIdle
    /\ isMenuVisible
    /\ placesLoading < MaxPlacesLoading
    /\ isGameActive' = TRUE
    /\ currentGameMode' = "findPlace"
    /\ canvasGameMode' = "findPlace"
    /\ placesLoading' = placesLoading + 1
    /\ lastEvent' = [handler |-> "startFindPlaceGame"]
    /\ UNCHANGED <<modelVars, loadVars, ret, menuVars, isPlacingPin, placeVars, initPc,
                   startCountry, endCountry, currentPath, gameStats, selectedRegion,
                   controllerNamedCountries, renderedAt>>

\* _createFallbackPlaces: the one built-in place, which has a latitude and a
\* longitude but no x and y
fallbackPlaces == <<[name |-> "Taj Mahal", hasXY |-> FALSE, x |-> 0, y |-> 0]>>

\* startNewRound on the place list ps with the pins and the round counter given,
\* and the rest of _startNextFindPlaceRound: with a place the round is shown and
\* pin placement enabled, without one the game is completed
\* (_handleFindPlaceGameComplete). event is the record of the handler it ends.
startNextFindPlaceRound(ps, pins, round, event) ==
    LET availablePlaces ==
            SelectSeq(ps, LAMBDA place :
                             ~\E i \in DOMAIN pins : pins[i].placeName = place.name)
    IN  IF round >= totalRounds \/ Len(availablePlaces) = 0
        THEN /\ currentPlace' = NoPlace
             /\ currentRound' = round
             /\ isGameActive' = FALSE
             /\ lastEvent' = event @@ [place |-> NoPlace]
             /\ UNCHANGED <<isGameUIVisible, isPlacingPin>>
        ELSE \E randomIndex \in DOMAIN availablePlaces :
                /\ currentPlace' = availablePlaces[randomIndex]
                /\ currentRound' = round + 1
                /\ isGameUIVisible' = TRUE
                /\ isPlacingPin' = TRUE
                /\ lastEvent' = event @@ [place |-> availablePlaces[randomIndex]]
                /\ UNCHANGED isGameActive

\* loadPlacesData returns, and startFindPlaceGame goes on: the place finder is
\* reset, the menu hidden and the first round started
PlacesLoaded(Responses) ==
    /\ placesLoading > 0
    /\ placesLoading' = placesLoading - 1
    /\ \E r \in Responses :
        LET parsed == ~Throws(r) /\ r.hasKey
            loaded == IF parsed THEN r.places ELSE fallbackPlaces
            dataLoaded == IF parsed THEN TRUE ELSE Len(fallbackPlaces) > 0
        IN  /\ places' = loaded
            /\ IF ~dataLoaded
               THEN /\ lastEvent' = [handler |-> "startFindPlaceGame continued",
                                     dataLoaded |-> FALSE, place |-> NoPlace]
                    /\ UNCHANGED <<currentPlace, currentRound, playerPins, scores,
                                   roundPlaces, isMenuVisible, isGameUIVisible,
                                   isGameActive, isPlacingPin>>
               ELSE /\ playerPins' = <<>>
                    /\ scores' = <<>>
                    /\ isMenuVisible' = FALSE
                    /\ startNextFindPlaceRound(
                          loaded, <<>>, 0,
                          [handler |-> "startFindPlaceGame continued",
                           dataLoaded |-> TRUE])
                    /\ roundPlaces' = IF currentPlace' = NoPlace THEN <<>>
                                      ELSE <<currentPlace'.name>>
    /\ UNCHANGED <<modelVars, loadVars, ret, regionSelection, continueButton,
                   canvasGameMode, initPc, currentGameMode, startCountry, endCountry,
                   currentPath, gameStats, selectedRegion, controllerNamedCountries,
                   renderedAt>>

\* the continueFindPlace listener, _startNextFindPlaceRound: the click on the
\* Continue button removes the button and dispatches the event
ContinueFindPlace ==
    /\ eventLoopIdle
    /\ continueButton
    /\ continueButton' = FALSE
    /\ startNextFindPlaceRound(places, playerPins, currentRound,
                               [handler |-> "continueFindPlace"])
    /\ roundPlaces' = IF currentPlace' = NoPlace THEN roundPlaces
                      ELSE Append(roundPlaces, currentPlace'.name)
    /\ UNCHANGED <<modelVars, loadVars, ret, places, playerPins, scores, isMenuVisible,
                   regionSelection, canvasGameMode, initPc, currentGameMode,
                   startCountry, endCountry, currentPath, gameStats, selectedRegion,
                   controllerNamedCountries, placesLoading, renderedAt>>

\* Numbers of the place finder are integers here. Math.sqrt is taken to the
\* integer below and Math.exp to five decimal places, so that a score may differ
\* by one from the score the doubles give; NaN is a value of its own.
NaN == [nan |-> TRUE]

number(v) == [nan |-> FALSE, value |-> v]

maxDistance == 3000

\* the largest r from lo to hi with r * r <= n, by bisection
RECURSIVE sqrtBetween(_, _, _)
sqrtBetween(n, lo, hi) ==
    IF lo = hi THEN lo
    ELSE LET mid == (lo + hi + 1) \div 2
         IN  IF mid * mid <= n THEN sqrtBetween(n, mid, hi)
             ELSE sqrtBetween(n, lo, mid - 1)

\* Math.sqrt of a sum of two squares, rounded down; 46340 is the largest
\* integer whose square is below 2^31
sqrt(n) == sqrtBetween(n, 0, 46340)

\* _calculateCanvasDistance, doubled: the scaling factor is 2.5
calculateCanvasDistanceDoubled(x1, y1, x2, y2) ==
    5 * sqrt((x2 - x1) * (x2 - x1) + (y2 - y1) * (y2 - y1))

expScale == 100000

\* a * b / c rounded down, without the product a * b
mulDiv(a, b, c) == (a \div c) * b + ((a % c) * b) \div c

\* the Taylor series of expScale * e^(num / den), summed until a term vanishes
RECURSIVE expSeries(_, _, _, _, _)
expSeries(num, den, k, term, sum) ==
    IF term = 0 THEN sum
    ELSE expSeries(num, den, k + 1, mulDiv(term, num, den) \div k, sum + term)

\* _calculateScore: Math.round(1000 * Math.exp(-distance / maxDistance))
calculateScore(distanceDoubled) ==
    LET e == expSeries(distanceDoubled, 2 * maxDistance, 1, expScale, 0)
    IN  (2 * 1000 * expScale + e) \div (2 * e)

\* the score recordPlayerGuess(x, y) computes for the current place: a place
\* without x and y gives undefined coordinates, a distance NaN and a score NaN
scoreOfGuess(x, y) ==
    IF currentPlace.hasXY
    THEN number(calculateScore(
                   calculateCanvasDistanceDoubled(x, y, currentPlace.x, currentPlace.y)))
    ELSE NaN

\* a plausible slip: pin placement is not disabled after the click
PinPlacedStaysEnabled(x, y) ==
    /\ eventLoopIdle
    /\ canvasGameMode = "findPlace"
    /\ isPlacingPin
    /\ IF currentPlace = NoPlace
       THEN /\ lastEvent' = [handler |-> "handlePinPlaced", x |-> x, y |-> y,
                             recorded |-> FALSE]
            /\ UNCHANGED <<playerPins, scores, continueButton>>
       ELSE /\ playerPins' = Append(playerPins,
                                    [placeName |-> currentPlace.name,
                                     playerCoordinates |-> [x |-> x, y |-> y],
                                     score |-> scoreOfGuess(x, y),
                                     round |-> currentRound])
            /\ scores' = Append(scores, scoreOfGuess(x, y))
            /\ continueButton' = TRUE
            /\ lastEvent' = [handler |-> "handlePinPlaced", x |-> x, y |-> y,
                             recorded |-> TRUE]
    /\ UNCHANGED <<modelVars, loadVars, ret, places, currentPlace, currentRound,
                   roundPlaces, isMenuVisible, isGameUIVisible, regionSelection,
                   canvasVars, initPc, isGameActive, currentGameMode, startCountry,
                   endCountry, currentPath, gameStats, selectedRegion,
                   controllerNamedCountries, placesLoading, renderedAt>>

\* a click on the map (mouseup without a drag, _handleMapClick), which the canvas
\* takes in Find the Place mode while pin placement is enabled: the pinPlaced
\* event is dispatched and handled (_handlePinPlaced with recordPlayerGuess), then
\* pin placement is disabled
PinPlaced(x, y) ==
    /\ eventLoopIdle
    /\ canvasGameMode = "findPlace"
    /\ isPlacingPin
    /\ isPlacingPin' = FALSE
    /\ IF currentPlace = NoPlace
       THEN /\ lastEvent' = [handler |-> "handlePinPlaced", x |-> x, y |-> y,
                             recorded |-> FALSE]
            /\ UNCHANGED <<playerPins, scores, continueButton>>
       ELSE /\ playerPins' = Append(playerPins,
                                    [placeName |-> currentPlace.name,
                                     playerCoordinates |-> [x |-> x, y |-> y],
                                     score |-> scoreOfGuess(x, y),
                                     round |-> currentRound])
            /\ scores' = Append(scores, scoreOfGuess(x, y))
            /\ continueButton' = TRUE
            /\ lastEvent' = [handler |-> "handlePinPlaced", x |-> x, y |-> y,
                             recorded |-> TRUE]
    /\ UNCHANGED <<modelVars, loadVars, ret, places, currentPlace, currentRound,
                   roundPlaces, isMenuVisible, isGameUIVisible, regionSelection,
                   canvasGameMode, initPc, isGameActive, currentGameMode, startCountry,
                   endCountry, currentPath, gameStats, selectedRegion,
                   controllerNamedCountries, placesLoading, renderedAt>>

\* resetGame, the listener of the resetGame event, which the reset button, Play
\* Again and New Game dispatch: controls of the game screens, which are up when
\* neither the menu nor the region buttons are
ResetGame ==
    /\ eventLoopIdle
    /\ ~isMenuVisible
    /\ regionSelection = <<>>
    /\ isGameActive' = FALSE
    /\ IF currentGameMode = "nameThemAll"
       THEN /\ selectedRegion' = NoRegion
            /\ controllerNamedCountries' = {}
            /\ namedCountries' = {}
            /\ UNCHANGED <<placeVars, startCountry, endCountry, currentPath,
                           continueButton>>
       ELSE IF currentGameMode = "findPlace"
       THEN /\ currentPlace' = NoPlace
            /\ currentRound' = 0
            /\ playerPins' = <<>>
            /\ scores' = <<>>
            /\ roundPlaces' = <<>>
            /\ continueButton' = FALSE
            /\ UNCHANGED <<places, selectedRegion, controllerNamedCountries,
                           namedCountries, startCountry, endCountry, currentPath>>
       ELSE /\ startCountry' = EmptyString
            /\ endCountry' = EmptyString
            /\ currentPath' = <<>>
            /\ UNCHANGED <<placeVars, selectedRegion, controllerNamedCountries,
                           namedCountries, continueButton>>
    /\ currentGameMode' = "countryPath"
    /\ canvasGameMode' = "countryPath"
    /\ isGameUIVisible' = FALSE
    /\ isMenuVisible' = TRUE
    /\ countries' = resetCountryHighlights(countries)
    /\ renderedAt' = renderedAt \cup {loadResult}
    /\ lastEvent' = [handler |-> "resetGame"]
    /\ UNCHANGED <<adjacencyMap, continentMap, countriesList, validPairs, svgLoaded,
                   regionCountries, currentRegion, loadVars, ret, regionSelection,
                   isPlacingPin, initPc, gameStats, placesLoading>>

----------------------------------------------------------------------------
(* The data the specifications below serve to the fetches *)

MaxNeighbors == 2      \* the longest neighbour list of an adjacency payload
MaxRegionList == 2     \* the longest member list of a region payload
MaxFragments == 3      \* the most path elements of a geometry source
MaxNameFragments == 2  \* the most path elements, where name lookup is checked

SeqsUpTo(S, n) == UNION {[1..k -> S] : k \in 0..n}

Europe == <<"E","u","r","o","p","e">>
Asia == <<"A","s","i","a">>
d1 == <<"M","0">>
d2 == <<"M","1">>

Path(name, d, class) ==
    [id |-> EmptyString, name |-> name, fill |-> EmptyString, d |-> d, class |-> class]

Failures == {[kind |-> "networkError"], [kind |-> "notOk"], [kind |-> "badJson"]}

SvgFailures == {[kind |-> "networkError"], [kind |-> "notOk"], [kind |-> "parseError"]}

NoKey == [kind |-> "ok", hasKey |-> FALSE]

----------------------------------------------------------------------------
(* SpecAdjacency: every adjacency payload over three countries, then isAdjacent *)

AdjNames == {France, Germany, Spain}

\* the countries a payload may have an entry for: Spain is only ever a neighbour
AdjKeys == {France, Germany}

AdjSvg ==
    SvgFailures \cup
    {[kind |-> "ok",
      paths |-> <<Path(France, d1, Europe), Path(Germany, d1, Europe),
                  Path(Spain, d1, EmptyString)>>]}

AdjacencyPayloads ==
    {[kind |-> "ok", hasKey |-> TRUE, adjacency |-> a] :
        a \in UNION {[K -> SeqsUpTo(AdjNames, MaxNeighbors)] : K \in SUBSET AdjKeys}}

NoPairs == {[kind |-> "ok", hasKey |-> TRUE, validPairs |-> <<>>]}

NextAdjacency ==
    \/ LoadSvg(AdjSvg)
    \/ LoadAdjacencyData(Failures \cup {NoKey} \cup AdjacencyPayloads)
    \/ LoadCountryPairs(NoPairs)
    \/ LoadRegionCountries({NoKey})
    \/ \E country1 \in AdjNames, country2 \in AdjNames : IsAdjacent(country1, country2)

SpecAdjacency == Init /\ [][NextAdjacency]_vars

\* C1 (as claimed): whenever the adjacency payload lists country2 under country1
\* or country1 under country2, isAdjacent(country1, country2) returns true, also
\* when one of the two has no entry of its own in the payload.
C1_RecordedPairIsAdjacent ==
    (/\ ret.op = "isAdjacent"
     /\ adjacencyFetch.kind = "ok"
     /\ adjacencyFetch.hasKey)
    => LET raw == adjacencyFetch.adjacency
           recorded(a, b) == a \in DOMAIN raw /\ b \in Range(raw[a])
       IN  (recorded(ret.country1, ret.country2) \/ recorded(ret.country2, ret.country1))
              => ret.result = TRUE

\* C2: isAdjacent(a, b) is false when a or b has no entry in the adjacency map,
\* and otherwise is true exactly when b is a neighbour of a or a is one of b.
C2_IsAdjacentContract ==
    ret.op = "isAdjacent"
    => LET a == ret.country1
           b == ret.country2
           hasEntry(c) == c \in DOMAIN adjacencyMap
       IN  /\ (~hasEntry(a) \/ ~hasEntry(b)) => ret.result = FALSE
           /\ (hasEntry(a) /\ hasEntry(b))
                 => (ret.result = TRUE <=> (b \in adjacencyMap[a] \/ a \in adjacencyMap[b]))

\* C2's case: a pair recorded in the reverse direction only, both with an entry
C2_Witness ==
    /\ ret.op = "isAdjacent"
    /\ ret.country1 \in DOMAIN adjacencyMap
    /\ ret.country2 \in DOMAIN adjacencyMap
    /\ ret.country2 \notin adjacencyMap[ret.country1]
    /\ ret.country1 \in adjacencyMap[ret.country2]
    /\ ret.result = TRUE

\* whether the adjacency step obtained no adjacency mapping: the fetch failed, the
\* status was not ok, the JSON did not parse, or the value has no 'adjacency'
noAuthoritativeAdjacency ==
    \/ Throws(adjacencyFetch)
    \/ adjacencyFetch.kind = "ok" /\ ~adjacencyFetch.hasKey

\* C11 (as claimed): when the adjacency step obtained no adjacency mapping, then
\* after the load every country of the registry has an entry in the adjacency
\* map, and every neighbour recorded for a country is another country of the same
\* classification, which is not 'Unknown'.
C11_FallbackCoversRegistry ==
    (loadResult = "true" /\ noAuthoritativeAdjacency)
    => \A i \in DOMAIN countries :
          LET c == countries[i].name
          IN  /\ c \in DOMAIN adjacencyMap
              /\ \A n \in adjacencyMap[c] :
                    /\ n # c
                    /\ continentMap[n] = continentMap[c]
                    /\ continentMap[c] # Unknown

----------------------------------------------------------------------------
(* SpecRegions: every region payload over two regions, then setRegion and      *)
(* markCountryNamed; setRegion may be called while the load is still going on *)
(* (the selectRegion listener is bound in the controller's constructor)       *)

RegSvg ==
    {[kind |-> "ok", paths |-> <<Path(France, d1, Europe), Path(Japan, d1, Asia)>>]}

\* the names a region payload lists: Spain is not a country of the map
RegNames == {France, Japan, Spain}

RegionPayloads ==
    {[kind |-> "ok", hasKey |-> TRUE, regions |-> e] :
        e \in {e \in SeqsUpTo([region : {"Europe", "World"},
                               countries : SeqsUpTo(RegNames, MaxRegionList)], 2) :
                  \A i, j \in DOMAIN e : i # j => e[i].region # e[j].region}}

RegionArgs == {"Europe", "World", "Nonexistent"}

NextRegions ==
    \/ LoadSvg(RegSvg)
    \/ LoadAdjacencyData({NoKey})
    \/ LoadCountryPairs(NoPairs)
    \/ LoadRegionCountries(Failures \cup {NoKey} \cup RegionPayloads)
    \/ \E region \in RegionArgs : SetRegion(region)
    \/ \E countryName \in {France, Japan} : MarkCountryNamed(countryName)

SpecRegions == Init /\ [][NextRegions]_vars

\* C3 (as claimed): whenever the load has succeeded and the current region is
\* "World", every country of the registry is a member of getCurrentRegionCountries().
C3_WorldComplete ==
    (loadResult = "true" /\ currentRegion = "World")
    => \A i \in DOMAIN countries : countries[i].name \in Range(getCurrentRegionCountries)

\* whether the region step was given a payload with its own "World" list
suppliedWorld ==
    /\ regionFetch.kind = "ok"
    /\ regionFetch.hasKey
    /\ \E i \in DOMAIN regionFetch.regions : regionFetch.regions[i].region = "World"

\* C4 (as claimed): after loadMapData has returned true the region index has a
\* region "World", whatever the region step was given, and its member list is the
\* full country list unless the payload supplied "World".
C4_WorldExists ==
    loadResult = "true"
    => /\ regionHas(regionCountries, "World")
       /\ ~suppliedWorld => regionGet(regionCountries, "World") = countriesList

\* C5: a setRegion(r) step for r that is neither a region nor "World" returns
\* false and leaves currentRegion and namedCountries as they were.
C5_UnknownRegionRejected ==
    [][(/\ ret'.op = "setRegion"
        /\ pc' = pc
        /\ ~regionHas(regionCountries, ret'.region)
        /\ ret'.region # "World")
       => (/\ ret'.result = FALSE
           /\ currentRegion' = currentRegion
           /\ namedCountries' = namedCountries)]_vars

\* C5's case: setRegion has just failed while a region was current and a
\* country had been named
C5_Witness ==
    /\ ret.op = "setRegion"
    /\ ret.result = FALSE
    /\ currentRegion # NoRegion
    /\ namedCountries # {}

----------------------------------------------------------------------------
(* SpecNames: registries over names that are, or collide with, alias keys, then *)
(* getCountryByName on spellings of those names                               *)

USA == <<"U","S","A">>
Usa == <<"U","s","a">>

\* the country names of the geometry: "USA" and "Usa" equal the alias key 'usa'
\* case-insensitively, and that key maps to "United States"
NameCountries == {UnitedStates, USA, Usa, France}

NameSvg ==
    {[kind |-> "ok", paths |-> ps] :
        ps \in {[i \in DOMAIN ns |-> Path(ns[i], d1, Europe)] :
                  ns \in SeqsUpTo(NameCountries, MaxNameFragments) \ {<<>>}}}

\* every second letter in upper case: "uSa", "uNiTeD StAtEs"
mixedCase(s) == [i \in 1..Len(s) |-> IF i % 2 = 0 THEN UpperChar(s[i]) ELSE s[i]]

padded(s) == <<" ">> \o s \o <<" ", "\t">>

\* the spellings of one name that differ only in letter case and in leading or
\* trailing whitespace
Spellings(s) ==
    LET cased == {s, toUpperCase(s), mixedCase(s)}
    IN  cased \cup {padded(t) : t \in cased}

kUnitedStates == <<"u","n","i","t","e","d"," ","s","t","a","t","e","s">>
kFrance == <<"f","r","a","n","c","e">>

NameBases == {kUsa, kAmerica, kUnitedStates, kFrance, kHolland, EmptyString}

NameInputs == UNION {Spellings(b) : b \in NameBases}

NextNames ==
    \/ LoadSvg(NameSvg)
    \/ LoadAdjacencyData({NoKey})
    \/ LoadCountryPairs(NoPairs)
    \/ LoadRegionCountries({NoKey, [kind |-> "networkError"]})
    \/ \E name \in NameInputs : GetCountryByName(name)

SpecNames == Init /\ [][NextNames]_vars

\* the name of the country data getCountryByName returned, EmptyString for null
resultName(index) == IF index = 0 THEN EmptyString ELSE countries[index].name

\* C6 (as claimed): an input gives the same result as every other spelling of
\* it that differs only in letter case and surrounding whitespace, and every
\* spelling of an alias key gives the country of the official name whenever that
\* country is in the registry.
C6_AliasResolves ==
    ret.op = "getCountryByName"
    => \A b \in NameBases :
          ret.name \in Spellings(b)
          => /\ \A y \in Spellings(b) : getCountryByName(y) = ret.result
             /\ (b \in DOMAIN specialCases /\ countriesHas(countries, specialCases[b]))
                   => resultName(ret.result) = specialCases[b]

\* C6 (amended): ... whenever that country is in the registry and no country of
\* the registry is named like the alias key itself (case-insensitively).
C6_AliasResolvesUnlessShadowed ==
    ret.op = "getCountryByName"
    => \A b \in NameBases :
          ret.name \in Spellings(b)
          => /\ \A y \in Spellings(b) : getCountryByName(y) = ret.result
             /\ (/\ b \in DOMAIN specialCases
                 /\ countriesHas(countries, specialCases[b])
                 /\ \A i \in DOMAIN countries : toLowerCase(countries[i].name) # b)
                   => resultName(ret.result) = specialCases[b]

\* C6's case: a padded, mixed-case spelling of 'usa' was looked up and gave the
\* data of "United States" through the alias table
C6_Witness ==
    /\ ret.op = "getCountryByName"
    /\ ret.name = padded(mixedCase(kUsa))
    /\ ret.stage = "special"
    /\ resultName(ret.result) = UnitedStates

\* C7: when a country of the registry is named like the trimmed input
\* (case-insensitively), getCountryByName returns such a country, also when the
\* input is an alias key of another country; the alias table answers only when
\* there is no such country, and the region scan only when the alias table gave
\* nothing.
C7_ExactMatchFirst ==
    (ret.op = "getCountryByName" /\ ret.name # EmptyString)
    => LET wanted == toLowerCase(trim(ret.name))
           exact == {i \in DOMAIN countries : toLowerCase(countries[i].name) = wanted}
           alias == IF wanted \in DOMAIN specialCases
                       /\ countriesHas(countries, specialCases[wanted])
                    THEN countriesIndex(countries, specialCases[wanted])
                    ELSE 0
       IN  /\ exact # {} => (ret.result \in exact /\ ret.stage = "direct")
           /\ (exact = {} /\ alias # 0) => (ret.result = alias /\ ret.stage = "special")
           /\ ret.stage = "region" => (exact = {} /\ alias = 0)

\* C7's case: the input is the alias key 'usa', whose official name "United
\* States" is in the registry, and the country named "USA" is returned
C7_Witness ==
    /\ ret.op = "getCountryByName"
    /\ toLowerCase(trim(ret.name)) = kUsa
    /\ countriesHas(countries, UnitedStates)
    /\ ret.stage = "direct"
    /\ resultName(ret.result) = USA

----------------------------------------------------------------------------
(* SpecGeometry: every geometry source of a few path elements, with and       *)
(* without name, id and path data; the side tables are absent                 *)

JP == <<"J","P">>

GeoFragments ==
    {Path(name, d, Asia) : name \in {Japan, France}, d \in {EmptyString, d1, d2}}
    \cup {[id |-> id, name |-> EmptyString, fill |-> EmptyString, d |-> d1,
           class |-> EmptyString] : id \in {EmptyString, JP}}

GeoSvg ==
    SvgFailures \cup {[kind |-> "ok", paths |-> ps] : ps \in SeqsUpTo(GeoFragments, MaxFragments)}

NextGeometry ==
    \/ LoadSvg(GeoSvg)
    \/ LoadAdjacencyData({NoKey})
    \/ LoadCountryPairs({[kind |-> "notOk"]})
    \/ LoadRegionCountries({[kind |-> "networkError"]})

SpecGeometry == Init /\ [][NextGeometry]_vars

\* whether _processCountryPaths has run to its end
geometryDone == svgFetch.kind = "ok" /\ Len(svgFetch.paths) > 0

\* the path data, in source order, of the fragments named name that carry any
fragmentPaths(name) ==
    LET carrying == SelectSeq(svgFetch.paths,
                              LAMBDA f : pathName(f) = name /\ f.d # EmptyString)
    IN  [i \in DOMAIN carrying |-> carrying[i].d]

entriesNamed(name) == {i \in DOMAIN countries : countries[i].name = name}

\* C8 (as claimed): after the geometry step each distinct fragment name is exactly
\* one country, whose path list is the path data of the fragments of that name in
\* source order.
C8_OneCountryPerName ==
    geometryDone
    => \A name \in {pathName(svgFetch.paths[i]) : i \in DOMAIN svgFetch.paths} :
          /\ Cardinality(entriesNamed(name)) = 1
          /\ \A i \in entriesNamed(name) : countries[i].paths = fragmentPaths(name)

\* C8 (amended): after the geometry step the countries are exactly the distinct
\* names of the fragments that carry path data, one country each, and a
\* country's path list is the path data of those fragments in source order.
C8_OneCountryPerDrawnName ==
    geometryDone
    => /\ {countries[i].name : i \in DOMAIN countries}
            = {pathName(svgFetch.paths[i]) :
                  i \in {j \in DOMAIN svgFetch.paths : svgFetch.paths[j].d # EmptyString}}
       /\ \A i \in DOMAIN countries :
             /\ Cardinality(entriesNamed(countries[i].name)) = 1
             /\ countries[i].paths = fragmentPaths(countries[i].name)
             /\ Len(countries[i].paths) >= 1

\* C8's case: two fragments named "Japan" around one named "France" have given
\* one country "Japan" with the two paths in source order
C8_Witness ==
    /\ geometryDone
    /\ Len(svgFetch.paths) = 3
    /\ svgFetch.paths[1].name = Japan /\ svgFetch.paths[1].d = d2
    /\ svgFetch.paths[2].name = France /\ svgFetch.paths[2].d = d1
    /\ svgFetch.paths[3].name = Japan /\ svgFetch.paths[3].d = d1
    /\ Len(countries) = 2
    /\ countries[1].name = Japan
    /\ countries[1].paths = <<d2, d1>>

\* C9 (as claimed): when the geometry source has yielded zero countries,
\* loadMapData has returned false and svgLoaded is false.
C9_NoCountriesFailsLoad ==
    (pc = "done" /\ Len(countries) = 0) => (loadResult = "false" /\ ~svgLoaded)

----------------------------------------------------------------------------
(* SpecLoad: every outcome of each of the three side-table fetches *)

LoadSvgResponses ==
    SvgFailures \cup
    {[kind |-> "ok", paths |-> ps] :
        ps \in {<<>>, <<Path(France, d1, Europe)>>,
                <<Path(France, d1, Europe), Path(Germany, d1, Europe)>>,
                <<Path(France, d1, Europe), Path(Japan, d1, EmptyString)>>}}

LoadAdjacencyResponses ==
    Failures \cup {NoKey}
    \cup {[kind |-> "ok", hasKey |-> TRUE, adjacency |-> a] :
            a \in {EmptyMap, (France :> <<Germany>>)}}

LoadPairsResponses ==
    Failures \cup {NoKey}
    \cup {[kind |-> "ok", hasKey |-> TRUE, validPairs |-> v] :
            v \in {<<>>, <<[start |-> France, end |-> Germany]>>}}

LoadRegionResponses ==
    Failures \cup {NoKey}
    \cup {[kind |-> "ok", hasKey |-> TRUE, regions |-> e] :
            e \in {<<>>, <<[region |-> "Europe", countries |-> <<France, Spain>>]>>}}

NextLoad ==
    \/ LoadSvg(LoadSvgResponses)
    \/ LoadAdjacencyData(LoadAdjacencyResponses)
    \/ LoadCountryPairs(LoadPairsResponses)
    \/ LoadRegionCountries(LoadRegionResponses)

SpecLoad == Init /\ [][NextLoad]_vars

\* C10: once the geometry step has yielded at least one country, loadMapData
\* never returns false, and when it has returned, it returned true with
\* svgLoaded set, whatever each side-table fetch produced.
C10_SideTablesNeverAbort ==
    (geometryDone /\ Len(countries) >= 1)
    => /\ loadResult # "false"
       /\ pc = "done" => (loadResult = "true" /\ svgLoaded)

\* C10's case: all three side-table fetches failed, each in its own way, and the
\* load has returned true
C10_Witness ==
    /\ pc = "done"
    /\ Len(countries) >= 1
    /\ adjacencyFetch.kind = "networkError"
    /\ pairsFetch.kind = "badJson"
    /\ regionFetch.kind = "notOk"
    /\ loadResult = "true"
    /\ svgLoaded

----------------------------------------------------------------------------
(* SpecPairs: curated pair lists over known and unknown names, adjacency maps *)
(* with and without usable entries, then getRandomCountryPair                *)

MaxPairs == 2          \* the longest curated pair list

Atlantis == <<"A","t","l","a","n","t","i","s">>

PairSvg ==
    {[kind |-> "ok", paths |-> ps] :
        ps \in {<<Path(France, d1, Europe)>>,
                <<Path(France, d1, Europe), Path(Germany, d1, Europe),
                  Path(Japan, d1, Asia)>>}}

PairAdjacencyResponses ==
    {[kind |-> "networkError"], NoKey}
    \cup {[kind |-> "ok", hasKey |-> TRUE, adjacency |-> a] :
            a \in {EmptyMap,
                   (France :> <<Germany>>) @@ (Germany :> <<France>>),
                   (France :> <<Germany>>) @@ (Germany :> <<>>) @@ (Japan :> <<>>),
                   (France :> <<Japan>>),
                   (Japan :> <<Spain>>),
                   (France :> <<Spain>>)}}

\* the names a curated pair may carry: "Atlantis" is not a country of the map
PairNames == {France, Germany, Atlantis}

PairsResponses ==
    {[kind |-> "notOk"], NoKey}
    \cup {[kind |-> "ok", hasKey |-> TRUE, validPairs |-> v] :
            v \in SeqsUpTo([start : PairNames, end : PairNames], MaxPairs)}

NextPairs ==
    \/ LoadSvg(PairSvg)
    \/ LoadAdjacencyData(PairAdjacencyResponses)
    \/ LoadCountryPairs(PairsResponses)
    \/ LoadRegionCountries({NoKey})
    \/ GetRandomCountryPair

SpecPairs == Init /\ [][NextPairs]_vars

\* whether a pair (not null) was returned by the last call
pairReturned == ret.op = "getRandomCountryPair" /\ ret.result # NoPair

\* C12 (as claimed): with an empty curated list and an adjacency map in which some
\* country of the registry has a non-empty neighbour set, a returned pair has
\* start # end and its countries are adjacent or share a classification that is
\* not 'Unknown'.
C12_GeneratedPairIsLinked ==
    (pairReturned /\ validPairs = <<>> /\ validStartCountries # {})
    => LET start == ret.result.start
           end == ret.result.end
       IN  /\ start # end
           /\ \/ isAdjacent(start, end)
              \/ continentMap[start] = continentMap[end] /\ continentMap[start] # Unknown

\* C13 (as claimed): a returned pair consists of two distinct countries of the
\* registry, whatever the curated list and the adjacency map are.
C13_PairDistinctAndKnown ==
    pairReturned
    => /\ ret.result.start # ret.result.end
       /\ countriesHas(countries, ret.result.start)
       /\ countriesHas(countries, ret.result.end)

\* the countries of the registry that a chain of isAdjacent steps reaches from S
RECURSIVE reachableFrom(_)
reachableFrom(S) ==
    LET T == S \cup {c \in Range(countriesList) : \E s \in S : isAdjacent(s, c)}
    IN  IF T = S THEN S ELSE reachableFrom(T)

\* C14 (as claimed): the end country of a returned pair is reachable from its
\* start country by a chain of countries, each adjacent to the next.
C14_PairHasPath ==
    pairReturned => ret.result.end \in reachableFrom({ret.result.start})

----------------------------------------------------------------------------
(* SpecPath: Country Path games on a map of three mutually adjacent countries, *)
(* one of them with a lower-case word in its name, and on a map of one country *)

IsleOfMan == <<"I","s","l","e"," ","o","f"," ","M","a","n">>

PathCountries == {France, Germany, IsleOfMan}

PathSvg ==
    {[kind |-> "ok", paths |-> ps] :
        ps \in {<<Path(France, d1, Europe)>>,
                <<Path(France, d1, Europe), Path(Germany, d1, Europe),
                  Path(IsleOfMan, d1, Europe)>>}}

PathAdjacencyResponses ==
    {[kind |-> "ok", hasKey |-> TRUE, adjacency |-> a] :
        a \in {(France :> <<Germany, IsleOfMan>>) @@ (Germany :> <<France, IsleOfMan>>)
                  @@ (IsleOfMan :> <<France, Germany>>),
               (France :> <<Germany>>) @@ (Germany :> <<IsleOfMan>>)
                  @@ (IsleOfMan :> <<>>)}}

PathPairsResponses ==
    {NoKey}
    \cup {[kind |-> "ok", hasKey |-> TRUE, validPairs |-> v] :
            v \in {<<[start |-> France, end |-> IsleOfMan]>>,
                   <<[start |-> Germany, end |-> Germany]>>}}

\* what the player types: the names as they are, in lower case, in upper case
\* with blanks around, and a name that is no country
PathInputs ==
    UNION {{c, toLowerCase(c), padded(toUpperCase(c))} : c \in PathCountries}
    \cup {Atlantis}

NextPath ==
    \/ LoadSvg(PathSvg)
    \/ LoadAdjacencyData(PathAdjacencyResponses)
    \/ LoadCountryPairs(PathPairsResponses)
    \/ LoadRegionCountries({NoKey})
    \/ InitAfterLoad
    \/ StartGame
    \/ \E typed \in PathInputs : HandleCountryInput(typed)
    \/ ResetGame

SpecPath == Init /\ [][NextPath]_vars

\* the countries of the registry the typed text names, letter case and
\* surrounding whitespace aside
countriesTyped(typed) ==
    {countries[i].name : i \in {j \in DOMAIN countries :
                                   toLowerCase(countries[j].name) = toLowerCase(trim(typed))}}

\* C15 (as claimed): in an active Country Path game, an input that names, in any
\* letter case and with whitespace around, a country that is adjacent to the last
\* country of the path and not in the path, is accepted: the country is appended
\* to the path, and the game is over when it is the end country.
C15_AnyCasingAccepted ==
    [][(/\ lastEvent'.handler = "handleCountryInput"
        /\ gameStats' # gameStats
        /\ currentGameMode = "countryPath"
        /\ Len(currentPath) > 0)
       => \A c \in countriesTyped(lastEvent'.typed) :
             (isAdjacent(currentPath[Len(currentPath)], c) /\ c \notin Range(currentPath))
             => /\ lastEvent'.accepted
                /\ currentPath' = Append(currentPath, c)
                /\ c = endCountry => ~isGameActive']_vars

\* C16: in every state the current path is contiguous and free of repetitions:
\* each country of currentPath is adjacent to the next, and none occurs twice.
C16_PathContiguousNoRepeat ==
    /\ \A k \in 1..(Len(currentPath) - 1) : isAdjacent(currentPath[k], currentPath[k + 1])
    /\ \A j, k \in DOMAIN currentPath : j # k => currentPath[j] # currentPath[k]

\* C16's case: a third country was accepted into the path although the player
\* had already been rejected once
C16_Witness ==
    /\ currentGameMode = "countryPath"
    /\ Len(currentPath) = 3
    /\ gameStats.errors >= 1
    /\ lastEvent.handler = "handleCountryInput"
    /\ lastEvent.accepted

\* C23 (as claimed): Country Path victory is declared exactly when the player
\* reaches the destination: while the game is active the last country of the
\* path is not the end country, the input step that appends the end country
\* makes the game inactive, and no input is handled while the game is inactive.
C23_VictoryExactlyAtDestination ==
    /\ []((isGameActive /\ currentGameMode = "countryPath" /\ Len(currentPath) > 0)
          => currentPath[Len(currentPath)] # endCountry)
    /\ [][(/\ lastEvent'.handler = "handleCountryInput"
           /\ currentPath' = Append(currentPath, endCountry))
          => ~isGameActive']_vars
    /\ [][(/\ lastEvent'.handler = "handleCountryInput"
           /\ <<gameStats, currentPath>>' # <<gameStats, currentPath>>)
          => isGameActive]_vars

\* C17 (as claimed): whenever a Country Path game is active, currentPath is not
\* empty and its first element is the start country.
C17_ActivePathStartsAtStart ==
    (isGameActive /\ currentGameMode = "countryPath")
    => (Len(currentPath) > 0 /\ currentPath[1] = startCountry)

----------------------------------------------------------------------------
(* SpecNameThemAll: Name Them All games on a map of two countries, with region *)
(* tables that are missing, generated, or supplied with and without "World"    *)

NameThemAllRegionResponses ==
    {[kind |-> "networkError"], NoKey}
    \cup {[kind |-> "ok", hasKey |-> TRUE, regions |-> e] :
            e \in {<<[region |-> "Europe", countries |-> <<France>>],
                     [region |-> "Asia", countries |-> <<Japan>>]>>,
                   <<[region |-> "Europe", countries |-> <<France>>],
                     [region |-> "World", countries |-> <<France>>]>>}}

NameThemAllRegions == {"Europe", "America", "Asia", "Africa", "World"}

NameThemAllInputs ==
    {France, toLowerCase(France), Japan, padded(toUpperCase(Japan)), Atlantis}

NextNameThemAll ==
    \/ LoadSvg(RegSvg)
    \/ LoadAdjacencyData({NoKey})
    \/ LoadCountryPairs(NoPairs)
    \/ LoadRegionCountries(NameThemAllRegionResponses)
    \/ InitAfterLoad
    \/ ShowRegionSelection
    \/ \E region \in NameThemAllRegions : StartNameThemAllGame(region)
    \/ \E typed \in NameThemAllInputs : HandleCountryInput(typed)
    \/ ResetGame

SpecNameThemAll == Init /\ [][NextNameThemAll]_vars

\* C18 (as claimed): in every state of a Name Them All game each name of the
\* model's named set is a member of the current region's list, so that the count
\* of the remaining countries is not negative.
C18_NamedWithinRegion ==
    currentGameMode = "nameThemAll"
    => /\ namedCountries \subseteq Range(getCurrentRegionCountries)
       /\ remainingCount >= 0

\* C28 (as claimed): the Name Them All victory is declared only when the region
\* is complete: after an accepted input for which areAllCountriesNamed is true,
\* every member of the current region's list is in the named set.
C28_VictoryOnlyWhenComplete ==
    (/\ currentGameMode = "nameThemAll"
     /\ lastEvent.handler = "handleCountryInput"
     /\ lastEvent.accepted
     /\ areAllCountriesNamed(regionCountries, currentRegion, namedCountries))
    => Range(getCurrentRegionCountries) \subseteq namedCountries

\* C30 (as claimed): every region offered by getAvailableRegions, the default
\* list included, is accepted by setRegion: after startNameThemAllGame(region)
\* for an offered region, setRegion has returned true and the model's current
\* region is the controller's selected region.
C30_OfferedRegionAccepted ==
    lastEvent.handler = "startNameThemAllGame"
    => /\ lastEvent.regionSet
       /\ currentRegion = selectedRegion

----------------------------------------------------------------------------
(* SpecGame: the events of the menu and of the game screens, interleaved with  *)
(* the load of the map and with the load of the places                        *)

GameSvg ==
    {[kind |-> "notOk"],
     [kind |-> "ok", paths |-> <<Path(France, d1, Europe), Path(Germany, d1, Europe)>>]}

GameAdjacencyResponses ==
    {[kind |-> "ok", hasKey |-> TRUE,
      adjacency |-> (France :> <<Germany>>) @@ (Germany :> <<France>>)]}

Louvre == [name |-> "Louvre", hasXY |-> TRUE, x |-> 2, y |-> 1]

PlacesResponses ==
    {[kind |-> "networkError"]}
    \cup {[kind |-> "ok", hasKey |-> TRUE, places |-> ps] : ps \in {<<>>, <<Louvre>>}}

NextGame ==
    \/ LoadSvg(GameSvg)
    \/ LoadAdjacencyData(GameAdjacencyResponses)
    \/ LoadCountryPairs(NoPairs)
    \/ LoadRegionCountries({[kind |-> "networkError"]})
    \/ InitAfterLoad
    \/ StartGame
    \/ \E typed \in {France, Germany} : HandleCountryInput(typed)
    \/ ShowRegionSelection
    \/ \E region \in {"Europe", "World"} : StartNameThemAllGame(region)
    \/ StartFindPlaceGame
    \/ PlacesLoaded(PlacesResponses)
    \/ ResetGame

SpecGame == Init /\ [][NextGame]_vars

\* the countries that carry the flag
flagged(flag) ==
    {countries[i].name : i \in {j \in DOMAIN countries : countries[j][flag]}}

\* C19 (as claimed): right after a game start no country carries a flag of an
\* earlier game: after startGame the start country alone is isStart and selected
\* and the end country alone is isEnd (none when there is no pair), and after
\* startNameThemAllGame and startFindPlaceGame no country carries any flag.
C19_FlagsResetAtStart ==
    /\ lastEvent.handler = "startGame"
       => LET countryPair == lastEvent.countryPair
              only(name) == IF countryPair = NoPair THEN {} ELSE {name}
          IN  /\ flagged("isStart") = only(countryPair.start)
              /\ flagged("selected") = only(countryPair.start)
              /\ flagged("isEnd") = only(countryPair.end)
    /\ lastEvent.handler \in {"startNameThemAllGame", "startFindPlaceGame",
                              "startFindPlaceGame continued"}
       => flagged("isStart") \cup flagged("selected") \cup flagged("isEnd") = {}

\* C20 (as claimed): a game is active only when loadMapData has returned true,
\* and every call of renderMap was made after it had returned true.
C20_NoGameWithoutLoad ==
    /\ isGameActive => loadResult = "true"
    /\ renderedAt \subseteq {"true"}

----------------------------------------------------------------------------
(* SpecInput: Country Path and Name Them All games on a map of three countries, *)
(* with inputs of every kind of rejection                                       *)

InputSvg ==
    {[kind |-> "ok",
      paths |-> <<Path(France, d1, Europe), Path(Germany, d1, Europe),
                  Path(Japan, d1, Asia)>>]}

InputAdjacencyResponses ==
    {[kind |-> "ok", hasKey |-> TRUE,
      adjacency |-> (France :> <<Germany>>) @@ (Germany :> <<France>>) @@ (Japan :> <<>>)]}

InputRegionResponses ==
    {[kind |-> "ok", hasKey |-> TRUE,
      regions |-> <<[region |-> "Europe", countries |-> <<France, Germany>>],
                    [region |-> "Asia", countries |-> <<Japan>>]>>]}

InputInputs == {France, toLowerCase(Germany), padded(toUpperCase(Japan)), Atlantis}

NextInput ==
    \/ LoadSvg(InputSvg)
    \/ LoadAdjacencyData(InputAdjacencyResponses)
    \/ LoadCountryPairs(NoPairs)
    \/ LoadRegionCountries(InputRegionResponses)
    \/ InitAfterLoad
    \/ StartGame
    \/ ShowRegionSelection
    \/ \E region \in {"Europe", "Asia", "World"} : StartNameThemAllGame(region)
    \/ \E typed \in InputInputs : HandleCountryInput(typed)
    \/ ResetGame

SpecInput == Init /\ [][NextInput]_vars

\* C22: a rejected input (not found, already in the path, not adjacent, not in
\* the region, already named) adds exactly one to gameStats.errors and leaves
\* the path, the move count, both named sets, every country's flags and
\* isGameActive as they were.
C22_RejectionOnlyCountsError ==
    [][((\E typed \in InputInputs : HandleCountryInput(typed))
        /\ ~lastEvent'.accepted)
       => /\ gameStats'.errors = gameStats.errors + 1
          /\ gameStats'.moves = gameStats.moves
          /\ UNCHANGED <<currentPath, namedCountries, controllerNamedCountries,
                         countries, isGameActive>>]_vars

\* C22's case: after an accepted move of a Country Path game and a first
\* rejection, a Name Them All input is rejected for a country already named
C22_Witness ==
    /\ lastEvent.handler = "handleCountryInput"
    /\ ~lastEvent.accepted
    /\ lastEvent.reason = "already-named"
    /\ currentGameMode = "nameThemAll"
    /\ gameStats.moves > 0
    /\ gameStats.errors = 2

----------------------------------------------------------------------------
(* SpecFallback: maps of up to two countries of every kind of classification, *)
(* and region fetches that end in _generateFallbackRegions                   *)

Fiji == <<"F","i","j","i">>
SouthAsia == <<"S","o","u","t","h"," ","A","s","i","a">>
NorthAfrica == <<"N","o","r","t","h"," ","A","f","r","i","c","a">>
Caribbean == <<"C","a","r","i","b","b","e","a","n">>
Oceania == <<"O","c","e","a","n","i","a">>

FallbackClasses == {Europe, Asia, SouthAsia, NorthAfrica, Caribbean, Oceania, EmptyString}

FallbackSvg ==
    {[kind |-> "ok", paths |-> ps] :
        ps \in {<<Path(France, d1, c1)>> : c1 \in FallbackClasses}
               \cup {<<Path(France, d1, c1), Path(Fiji, d1, c2)>> :
                       c1 \in FallbackClasses, c2 \in FallbackClasses}}

FallbackRegionResponses ==
    Failures
    \cup {[kind |-> "badList", regions |-> e] :
            e \in {<<>>, <<[region |-> "Oceania", countries |-> <<Fiji>>]>>}}

NextFallback ==
    \/ LoadSvg(FallbackSvg)
    \/ LoadAdjacencyData({NoKey})
    \/ LoadCountryPairs(NoPairs)
    \/ LoadRegionCountries(FallbackRegionResponses)

SpecFallback == Init /\ [][NextFallback]_vars

\* the countries of the map whose classification, in lower case, contains one of
\* the keywords
classified(keywords) ==
    {countryName \in Range(countriesList) :
        \E kw \in keywords : includes(toLowerCase(continentMap[countryName]), kw)}

\* the members of a region of the index, none when the index has no such region
membersOf(region) ==
    IF regionHas(regionCountries, region)
    THEN Range(regionGet(regionCountries, region))
    ELSE {}

\* C24 (as claimed): after fallback region generation the region index holds
\* exactly Europe, America, Asia, Africa and World; World is the full country
\* list; the four continental regions are pairwise disjoint; and a country is in
\* a continental region exactly when its classification contains a keyword of
\* that region.
C24_FallbackRegions ==
    (pc = "done" /\ (Throws(regionFetch) \/ regionFetch.kind = "badList"))
    => /\ {regionCountries[i].region : i \in DOMAIN regionCountries}
             = {"Europe", "America", "Asia", "Africa", "World"}
       /\ Len(regionCountries) = 5
       /\ regionHas(regionCountries, "World")
       /\ regionGet(regionCountries, "World") = countriesList
       /\ \A r1, r2 \in {"Europe", "America", "Asia", "Africa"} :
             r1 # r2 => membersOf(r1) \cap membersOf(r2) = {}
       /\ membersOf("Europe") = classified({kwEurope})
       /\ membersOf("America") = classified({kwAmerica, kwNorth, kwSouth, kwCaribbean})
       /\ membersOf("Asia") = classified({kwAsia, kwMiddleEast})
       /\ membersOf("Africa") = classified({kwAfrica})

----------------------------------------------------------------------------
(* SpecPlaces: Find the Place games over place lists that are shorter and      *)
(* longer than the number of rounds, and over the built-in list, with the      *)
(* clicks on the menu, on the map and on Continue interleaved with the load    *)
(* of the places                                                               *)

Colosseum == [name |-> "Colosseum", hasXY |-> TRUE, x |-> 2100, y |-> 700]
Giza == [name |-> "Giza", hasXY |-> TRUE, x |-> 2300, y |-> 900]
Uluru == [name |-> "Uluru", hasXY |-> TRUE, x |-> 3500, y |-> 1500]

PlaceLists == {<<>>, <<Louvre>>, <<Louvre, Colosseum, Giza, Uluru>>}

PlaceListResponses ==
    {[kind |-> "networkError"]}
    \cup {[kind |-> "ok", hasKey |-> TRUE, places |-> ps] : ps \in PlaceLists}

\* where the player clicks: on a place, near one and far from all
GuessPositions == {<<2100, 700>>, <<2000, 1000>>, <<0, 0>>}

NextPlaces ==
    \/ LoadSvg({[kind |-> "ok", paths |-> <<Path(France, d1, Europe)>>]})
    \/ LoadAdjacencyData({NoKey})
    \/ LoadCountryPairs(NoPairs)
    \/ LoadRegionCountries({NoKey})
    \/ InitAfterLoad
    \/ StartFindPlaceGame
    \/ PlacesLoaded(PlaceListResponses)
    \/ \E position \in GuessPositions : PinPlaced(position[1], position[2])
    \/ ContinueFindPlace
    \/ ResetGame

SpecPlaces == Init /\ [][NextPlaces]_vars

\* C25 (as claimed): within one Find the Place game no place is used twice: the
\* places startNewRound chose since the game was reset differ by name, and no two
\* pins carry the same place name.
C25_NoPlaceTwice ==
    /\ \A j, k \in DOMAIN roundPlaces : j # k => roundPlaces[j] # roundPlaces[k]
    /\ \A j, k \in DOMAIN playerPins :
          j # k => playerPins[j].placeName # playerPins[k].placeName

\* C26 (as claimed): every recorded score is an integer from 0 to 1000, for the
\* loaded places and for the built-in place, and a guess made while no place is
\* current records nothing.
C26_ScoreInRange ==
    /\ [](\A i \in DOMAIN scores : ~scores[i].nan /\ scores[i].value \in 0..1000)
    /\ [][(\E position \in GuessPositions : PinPlaced(position[1], position[2]))
          /\ currentPlace = NoPlace
          => UNCHANGED <<playerPins, scores>>]_vars

\* whether the last handler ended with startNewRound returning null
startNewRoundReturnedNull ==
    /\ lastEvent.handler \in {"startFindPlaceGame continued", "continueFindPlace"}
    /\ lastEvent.place = NoPlace

\* getGameState().complete
complete == currentRound >= totalRounds

\* C27 (as claimed): whenever startNewRound has returned null, so that the game
\* is over, getGameState().complete is true.
C27_GameOverIsComplete == startNewRoundReturnedNull => complete

\* C29: at most one guess is scored per round: there are never more scores or
\* pins than rounds started, and never more rounds than totalRounds.
C29_OneGuessPerRound ==
    /\ Len(scores) <= currentRound
    /\ Len(playerPins) <= currentRound
    /\ currentRound <= totalRounds

\* C29's case: the third round was played to its guess, one score for each round
C29_Witness ==
    /\ currentRound = totalRounds
    /\ Len(scores) = totalRounds
    /\ Len(playerPins) = totalRounds
    /\ lastEvent.handler = "handlePinPlaced"
    /\ lastEvent.recorded

====
